---- MODULE Spec2Model ----
(***************************************************************************)
(* A model of src/src/session.rs: one wintun Session shared (through Arc) *)
(* by several threads, the packets created on it, and the driver and OS   *)
(* objects the Session calls into.                                         *)
(*                                                                         *)
(* Every driver or OS call of session.rs is one atomic step.  The calls   *)
(* allocate_send_packet, send_packet, try_receive, get_read_wait_event and *)
(* shutdown make one such call each and are one action each;               *)
(* receive_blocking is a sequence of steps (the polls, the fetch of the    *)
(* read event, the wait) that interleave with every other thread.          *)
(***************************************************************************)
EXTENDS Integers, Sequences, FiniteSets, TLC

\* ------------------------------------------------------------- bounds
\* Threads that share the Session, each starting with its own Arc<Session>.
NumThreads == 2
\* Send packets the application allocates over the Session's life.
MaxAlloc == 2
\* Packets the driver queues for reception over the Session's life.
MaxInject == 2
\* ---------------------------------------------------------- constants
\* The poll burst of receive_blocking: `for _ in 0..5`.
PollBurst == 5
\* The largest value of `size: u16`.
MaxU16 == 65535
\* The bytes of the driver's rings: the capacity given to start_session,
\* here the smallest the driver takes.
RingCapacity == 131072

Threads == 1..NumThreads
\* The sizes allocate_send_packet is called with.
SizeChoices == {1, MaxU16}
\* The size the calls that are not about sizes allocate with.
FullSize == {MaxU16}
\* The sizes the driver reports for a received packet.
RxSizes == {MaxU16}

VARIABLES
    session,         \* Session.session: "valid" or "null" (after Drop)
    read_event,      \* Session.read_event, the OnceLock: "uninit" or "handle"
    shutdown_event,  \* the shutdown event object: "unset", "set" or "closed"
    readSignal,      \* the driver's read-ready event object is signaled
    drvSession,      \* the driver's side of the session: "running" or "ended"
    refs,            \* the Arc<Session> references the threads own
    pc,              \* pc[t]: where thread t is inside receive_blocking
    polls,           \* polls[t]: try_receive calls made in the current burst
    pkts,            \* the live Packets, by buffer: [kind, len, session]
    allocated,       \* send buffers the driver has handed out
    txRing,          \* the driver's send ring, in allocation order: [buf, sent]
    sendLog,         \* the buffers WintunSendPacket was called with, in order
    delivered,       \* the buffers that reached the remote end, in order
    injected,        \* packets the driver has queued for reception
    rxQueue,         \* the driver's receive queue: <<buf, size>> entries
    rxLog,           \* the buffers WintunReceivePacket handed out, in order
    releaseLog,      \* the buffers WintunReleaseReceivePacket was called with
    getEventCalls,   \* calls of WintunGetReadWaitEvent
    dropLog,         \* the steps Drop for Session has taken, in order
    staleCalls,      \* driver calls made on an ended or null session
    last             \* the last call that returned a result (see NoCall)

vars == <<session, read_event, shutdown_event, readSignal, drvSession,
          refs, pc, polls, pkts, allocated, txRing, sendLog, delivered,
          injected, rxQueue, rxLog, releaseLog, getEventCalls, dropLog,
          staleCalls, last>>

sessVars == <<session, shutdown_event, drvSession, dropLog>>
txVars == <<allocated, txRing, sendLog, delivered>>
rxVars == <<injected, rxQueue, rxLog>>
thrVars == <<pc, polls>>

TxBuf(i) == <<"tx", i>>
RxBuf(j) == <<"rx", j>>

NoBuf == <<"none", 0>>

\* The record of a call that returned: the call, the thread (of a
\* receive_blocking), the result, the packet's buffer, lifecycle tag and
\* byte length when it returns or takes one, the size asked for, the state
\* the call found (`pre`) and the driver's answer (`drv`).
NoCall ==
    [op |-> "none", t |-> 0, res |-> "none", buf |-> NoBuf, kind |-> "none",
     len |-> 0, size |-> 0, pre |-> "none", drv |-> "none"]

EmptyPkts == [b \in {} |-> 0]

\* ------------------------------------------------------- construction
\* The state start_session leaves: a valid handle, an empty read-event
\* cache, an unset shutdown event, and one Arc<Session> per thread.
Init ==
    /\ session = "valid"
    /\ read_event = "uninit"
    /\ shutdown_event = "unset"
    /\ readSignal = FALSE
    /\ drvSession = "running"
    /\ refs = NumThreads
    /\ pc = [t \in Threads |-> "idle"]
    /\ polls = [t \in Threads |-> 0]
    /\ pkts = EmptyPkts
    /\ allocated = 0
    /\ txRing = <<>>
    /\ sendLog = <<>>
    /\ delivered = <<>>
    /\ injected = 0
    /\ rxQueue = <<>>
    /\ rxLog = <<>>
    /\ releaseLog = <<>>
    /\ getEventCalls = 0
    /\ dropLog = <<>>
    /\ staleCalls = 0
    /\ last = NoCall

\* ------------------------------------------------------------ helpers
Live == DOMAIN pkts

Without(p, b) == [x \in (DOMAIN p) \ {b} |-> p[x]]

\* The threads inside receive_blocking: each borrows one reference for
\* the whole call.
Active == {t \in Threads : pc[t] # "idle"}

\* Some thread is running application code (and can drop what it owns).
SomeIdle == Active # Threads

\* A reference, borrowed by a running call or not.
FreeRefUnborrowed == refs > 0

\* A reference that no receive_blocking call borrows.
FreeRef == refs > Cardinality(Active)

\* Thread t can begin a call on the Session: it is running application
\* code and has a reference to call through.
CanCall(t) == pc[t] = "idle" /\ FreeRef

\* Some thread can make a call on the Session.
CanCallAny == SomeIdle /\ FreeRef

\* The outcomes the environment can give an OS or driver call that may
\* fail: FALSE is success.
FailChoices == {FALSE, TRUE}

\* Arc::strong_count: the threads' references and the packets' references.
StrongCount(n, p) == n + Cardinality({b \in DOMAIN p : p[b].session})

\* A driver call made with the session handle: it is stale when the handle
\* is null or the driver has ended the session.
Stale == session = "null" \/ drvSession = "ended"

StaleAfter(n) == IF Stale THEN staleCalls + n ELSE staleCalls

\* `size as u32` and `size as usize`: the zero extension of a u16, which
\* keeps every value of 0..MaxU16.
AsU32(size) == IF size \in 0..MaxU16 THEN size ELSE size % (MaxU16 + 1)

AsUsize(size) == IF size \in 0..MaxU16 THEN size ELSE size % (MaxU16 + 1)

\* ------------------------------------------------- Drop for Session
\* CloseHandle(self.shutdown_event.0), a failure being logged only.
DropCloseHandle(d, closeFails) ==
    IF closeFails
    THEN [d EXCEPT !.log = Append(@, "CloseHandle failed, logged")]
    ELSE [d EXCEPT !.ev = "closed", !.log = Append(@, "CloseHandle")]

\* self.get_wintun().WintunEndSession(self.session.0)
DropEndSession(d) ==
    [d EXCEPT !.drv = "ended",
              !.log = Append(@, IF d.session = "valid"
                                THEN "WintunEndSession(valid)"
                                ELSE "WintunEndSession(null)")]

\* self.session.0 = ptr::null_mut()
DropNullHandle(d) ==
    [d EXCEPT !.session = "null", !.log = Append(@, "session = null")]

\* A Drop that nulls the handle before it ends the session.
SessionDropNullFirst(d, closeFails) ==
    DropEndSession(DropNullHandle(DropCloseHandle(d, closeFails)))

\* impl Drop for Session: the three steps in the order of the code.
SessionDrop(d, closeFails) ==
    DropNullHandle(DropEndSession(DropCloseHandle(d, closeFails)))

SessionNow ==
    [session |-> session, ev |-> shutdown_event, drv |-> drvSession,
     log |-> dropLog]

\* The outcomes of the CloseHandle that releasing a reference leads to.
CloseChoices(n, p) ==
    IF StrongCount(n, p) = 0 /\ dropLog = <<>> THEN FailChoices ELSE {FALSE}

\* Releasing a reference: the Session is dropped when the count reaches 0.
Released(n, p, closeFails) ==
    IF StrongCount(n, p) = 0 /\ dropLog = <<>>
    THEN SessionDrop(SessionNow, closeFails)
    ELSE SessionNow

SetSession(d) ==
    /\ session' = d.session
    /\ shutdown_event' = d.ev
    /\ drvSession' = d.drv
    /\ dropLog' = d.log

\* ------------------------------------------------------- the driver
\* The bytes a packet takes in a ring: a 4-byte header and the data,
\* aligned to 4 bytes.
PacketSpace(size) == 4 + 4 * ((size + 3) \div 4)

RECURSIVE RingUsed(_)
RingUsed(ring) ==
    IF ring = <<>> THEN 0 ELSE PacketSpace(Head(ring).size) + RingUsed(Tail(ring))

\* WintunAllocateSendPacket: a null pointer when the driver fails or the
\* ring has no room, else the next buffer, queued in allocation order.
WintunAllocateSendPacket(ring, size, fails) ==
    IF fails
    THEN [ptr |-> NoBuf, err |-> "ERROR_HANDLE_EOF", ring |-> ring]
    ELSE IF PacketSpace(size) >= RingCapacity - RingUsed(ring)
    THEN [ptr |-> NoBuf, err |-> "ERROR_BUFFER_OVERFLOW", ring |-> ring]
    ELSE [ptr |-> TxBuf(allocated + 1), err |-> "none",
          ring |-> Append(ring, [buf |-> TxBuf(allocated + 1), size |-> size,
                                 sent |-> FALSE])]

\* WintunSendPacket: marks the buffer's slot as ready to go.
WintunSendPacket(ring, ptr) ==
    [i \in 1..Len(ring) |->
        IF ring[i].buf = ptr THEN [ring[i] EXCEPT !.sent = TRUE] ELSE ring[i]]

\* WintunReceivePacket: the head of the receive queue, or a null pointer
\* with ERROR_NO_MORE_ITEMS (empty) or another error (failure).
WintunReceivePacket(q, fails) ==
    IF fails THEN [ptr |-> NoBuf, size |-> 0, err |-> "ERROR_HANDLE_EOF", q |-> q]
    ELSE IF q = <<>>
    THEN [ptr |-> NoBuf, size |-> 0, err |-> "ERROR_NO_MORE_ITEMS", q |-> q]
    ELSE [ptr |-> Head(q)[1], size |-> Head(q)[2], err |-> "none", q |-> Tail(q)]

\* WaitForMultipleObjects(n, handles, FALSE, INFINITE) over the signaled
\* states of the handles: the lowest index that is signaled, 0 if none is
\* (the caller stays blocked).
RECURSIVE LowestSignaled(_, _)
LowestSignaled(signaled, i) ==
    IF i > Len(signaled) THEN 0
    ELSE IF signaled[i] THEN i
    ELSE LowestSignaled(signaled, i + 1)

WaitForMultipleObjects(signaled) ==
    LET i == LowestSignaled(signaled, 1) IN
      IF i = 0 THEN "blocked"
      ELSE IF i = 1 THEN "WAIT_OBJECT_0"
      ELSE IF i = 2 THEN "WAIT_OBJECT_1"
      ELSE "WAIT_OBJECT_n"


\* ------------------------------------------------------- the packet
\* Packet's destructor: a received buffer goes back to the driver's receive
\* ring; a send buffer, sent or not, makes no driver call.
PacketDropReleases(kind) == kind = "ReceivePacket"

\* A packet of lifecycle tag `kind` is destroyed: the driver call, if any.
PacketDropCall(b, kind) ==
    /\ releaseLog' = IF PacketDropReleases(kind)
                     THEN Append(releaseLog, b) ELSE releaseLog
    /\ staleCalls' = IF PacketDropReleases(kind)
                     THEN StaleAfter(1) ELSE staleCalls

\* The live packet b is destroyed: the driver call, then its reference.
DestroyPacket(b, closeFails) ==
    /\ PacketDropCall(b, pkts[b].kind)
    /\ pkts' = Without(pkts, b)
    /\ SetSession(Released(refs, Without(pkts, b), closeFails))

\* --------------------------------------------- allocate_send_packet
\* A Packet that holds no reference to its Session.
NewSendPacketNoRef(size) ==
    [kind |-> "SendPacketPending", len |-> AsUsize(size), session |-> FALSE]

\* A Packet whose length is the low byte of the size asked for.
NewSendPacketLowByte(size) ==
    [kind |-> "SendPacketPending", len |-> size % 256, session |-> TRUE]

\* The Packet of a successful allocation.
NewSendPacket(size) ==
    [kind |-> "SendPacketPending", len |-> AsUsize(size), session |-> TRUE]

\* An allocate_send_packet without the null check.
AllocateResultIgnoresNull(ptr) == "Ok"

\* `if ptr.is_null() { return Err(..) }`
AllocateResult(ptr) == IF ptr = NoBuf THEN "AllocationFailed" ELSE "Ok"

allocate_send_packet(size) ==
    /\ CanCallAny
    /\ allocated < MaxAlloc
    /\ \E fails \in FailChoices :
         LET r == WintunAllocateSendPacket(txRing, AsU32(size), fails) IN
           /\ staleCalls' = StaleAfter(1)
           /\ IF AllocateResult(r.ptr) = "AllocationFailed"
              THEN /\ last' = [NoCall EXCEPT !.op = "allocate_send_packet",
                                             !.res = AllocateResult(r.ptr),
                                             !.size = size, !.drv = r.err]
                   /\ UNCHANGED <<pkts, allocated, txRing>>
              ELSE /\ pkts' = pkts @@ (r.ptr :> NewSendPacket(size))
                   /\ allocated' = allocated + 1
                   /\ txRing' = r.ring
                   /\ last' = [NoCall EXCEPT !.op = "allocate_send_packet",
                                             !.res = AllocateResult(r.ptr),
                                             !.buf = r.ptr,
                                             !.kind = NewSendPacket(size).kind,
                                             !.len = NewSendPacket(size).len,
                                             !.size = size, !.drv = r.err]
    /\ UNCHANGED <<sessVars, read_event, readSignal, refs, thrVars,
                   sendLog, delivered, rxVars, releaseLog, getEventCalls>>

\* ------------------------------------------------------ send_packet
\* A send_packet without the assertion.
SendAssertOff(kind) == TRUE

\* assert!(matches!(packet.kind, packet::Kind::SendPacketPending))
SendAssert(kind) == kind = "SendPacketPending"

\* packet.bytes.as_ptr()
SendPointer(b) == b

\* A send_packet that tags the packet it sent as a received one.
MarkSentAsReceived(kind) == "ReceivePacket"

\* packet.kind = packet::Kind::SendPacketSent
MarkSent(kind) == "SendPacketSent"

send_packet(b) ==
    /\ CanCallAny
    /\ b \in Live
    /\ IF ~SendAssert(pkts[b].kind)
       THEN \* the assertion panics; unwinding destroys the packet as it is
            /\ last' = [NoCall EXCEPT !.op = "send_packet", !.res = "abort",
                                      !.buf = b, !.kind = pkts[b].kind,
                                      !.len = pkts[b].len, !.pre = pkts[b].kind]
            /\ \E closeFails \in CloseChoices(refs, Without(pkts, b)) :
                 DestroyPacket(b, closeFails)
            /\ UNCHANGED <<txRing, sendLog>>
       ELSE /\ txRing' = WintunSendPacket(txRing, SendPointer(b))
            /\ sendLog' = Append(sendLog, SendPointer(b))
            \* packet.kind = SendPacketSent, and the packet is destroyed on return
            /\ last' = [NoCall EXCEPT !.op = "send_packet", !.res = "Ok",
                                      !.buf = b,
                                      !.kind = MarkSent(pkts[b].kind),
                                      !.len = pkts[b].len, !.pre = pkts[b].kind]
            /\ releaseLog' = IF PacketDropReleases(MarkSent(pkts[b].kind))
                             THEN Append(releaseLog, b) ELSE releaseLog
            /\ staleCalls' = IF PacketDropReleases(MarkSent(pkts[b].kind))
                             THEN StaleAfter(2) ELSE StaleAfter(1)
            /\ pkts' = Without(pkts, b)
            /\ \E closeFails \in CloseChoices(refs, Without(pkts, b)) :
                 SetSession(Released(refs, Without(pkts, b), closeFails))
    /\ UNCHANGED <<read_event, readSignal, refs, thrVars, allocated,
                   delivered, rxVars, getEventCalls>>

\* The application destroys a packet it owns.
drop_packet(b) ==
    /\ SomeIdle
    /\ b \in Live
    /\ \E closeFails \in CloseChoices(refs, Without(pkts, b)) :
         DestroyPacket(b, closeFails)
    /\ UNCHANGED <<read_event, readSignal, refs, thrVars, txVars,
                   rxVars, getEventCalls, last>>

\* A thread gives up an Arc<Session> that no call borrows.
drop_session_ref ==
    /\ CanCallAny
    /\ refs' = refs - 1
    /\ \E closeFails \in CloseChoices(refs - 1, pkts) :
         SetSession(Released(refs - 1, pkts, closeFails))
    /\ UNCHANGED <<read_event, readSignal, thrVars, pkts, txVars, rxVars,
                   releaseLog, getEventCalls, staleCalls, last>>

\* ------------------------------------------------------ try_receive
\* A try_receive that reports "no packet" whatever the driver hands out.
TryReceiveBufferIsNone(ptr, err) ==
    IF ptr = NoBuf /\ err # "ERROR_NO_MORE_ITEMS" THEN "ReceiveFailed" ELSE "None"

\* A try_receive that reports every null pointer as "no packet".
TryReceiveErrorIsNone(ptr, err) ==
    IF ptr = NoBuf THEN "None" ELSE "Some"

\* A try_receive that reports every null pointer as an error.
TryReceiveNoItemsIsError(ptr, err) ==
    IF ptr = NoBuf THEN "ReceiveFailed" ELSE "Some"

\* What try_receive makes of the driver's answer: a Packet for a buffer,
\* Ok(None) for ERROR_NO_MORE_ITEMS, the error for any other failure.
TryReceiveResult(ptr, err) ==
    IF ptr = NoBuf
    THEN IF err = "ERROR_NO_MORE_ITEMS" THEN "None" ELSE "ReceiveFailed"
    ELSE "Some"

\* The Packet of a successful receive.
NewReceivePacket(size) ==
    [kind |-> "ReceivePacket", len |-> AsUsize(size), session |-> TRUE]

\* The effect of one try_receive whose driver call answered r.
TryReceiveStep(r) ==
    /\ staleCalls' = StaleAfter(1)
    /\ rxQueue' = r.q
    /\ IF TryReceiveResult(r.ptr, r.err) = "Some"
       THEN /\ pkts' = pkts @@ (r.ptr :> NewReceivePacket(r.size))
            /\ rxLog' = Append(rxLog, r.ptr)
       ELSE UNCHANGED <<pkts, rxLog>>

\* The record of a call that ends with the try_receive answered r.
TryReceiveReturn(op, t, res, r) ==
    IF TryReceiveResult(r.ptr, r.err) = "Some"
    THEN [NoCall EXCEPT !.op = op, !.t = t, !.res = res, !.buf = r.ptr,
                        !.kind = NewReceivePacket(r.size).kind,
                        !.len = NewReceivePacket(r.size).len,
                        !.size = r.size, !.drv = r.err]
    ELSE [NoCall EXCEPT !.op = op, !.t = t, !.res = res, !.drv = r.err]

try_receive ==
    /\ CanCallAny
    /\ \E fails \in FailChoices :
         LET r == WintunReceivePacket(rxQueue, fails) IN
           /\ TryReceiveStep(r)
           /\ last' = TryReceiveReturn("try_receive", 0,
                                       TryReceiveResult(r.ptr, r.err), r)
    /\ UNCHANGED <<sessVars, read_event, readSignal, refs, thrVars, txVars,
                   injected, releaseLog, getEventCalls>>

\* ---------------------------------------------- get_read_wait_event
\* A get_or_init that asks the driver on every call.
GetOrInitNoCache(cache) ==
    [cache |-> "handle", calls |-> getEventCalls + 1]

\* OnceLock::get_or_init: the driver is asked only while the cache is empty.
GetOrInit(cache) ==
    IF cache = "uninit"
    THEN [cache |-> "handle", calls |-> getEventCalls + 1]
    ELSE [cache |-> cache, calls |-> getEventCalls]

\* The effect of one get_read_wait_event.
GetReadWaitEventStep ==
    /\ read_event' = GetOrInit(read_event).cache
    /\ getEventCalls' = GetOrInit(read_event).calls
    /\ staleCalls' = IF GetOrInit(read_event).calls # getEventCalls
                     THEN StaleAfter(1) ELSE staleCalls

get_read_wait_event ==
    /\ CanCallAny
    /\ GetReadWaitEventStep
    /\ UNCHANGED <<sessVars, readSignal, refs, thrVars, pkts, txVars,
                   rxVars, releaseLog, last>>

\* ------------------------------------------------- receive_blocking
\* One try_receive of the poll burst by thread t: an error or a packet
\* returns from receive_blocking, Ok(None) goes on with the burst.
PollStep(t) ==
    \E fails \in FailChoices :
      LET r == WintunReceivePacket(rxQueue, fails)
          res == TryReceiveResult(r.ptr, r.err) IN
        /\ TryReceiveStep(r)
        /\ IF res = "None"
           THEN /\ pc' = [pc EXCEPT ![t] = "poll"]
                /\ polls' = [polls EXCEPT ![t] = polls[t] + 1]
                /\ UNCHANGED last
           ELSE /\ pc' = [pc EXCEPT ![t] = "idle"]
                /\ polls' = [polls EXCEPT ![t] = 0]
                /\ last' = TryReceiveReturn("receive_blocking", t,
                              IF res = "Some" THEN "Packet" ELSE res, r)

\* The call begins: the first try_receive of the first burst.
receive_blocking(t) ==
    /\ CanCall(t)
    /\ PollStep(t)
    /\ UNCHANGED <<sessVars, read_event, readSignal, refs, txVars,
                   injected, releaseLog, getEventCalls>>

\* A later try_receive of a burst.
rb_poll(t) ==
    /\ pc[t] = "poll"
    /\ polls[t] < PollBurst
    /\ PollStep(t)
    /\ UNCHANGED <<sessVars, read_event, readSignal, refs, txVars,
                   injected, releaseLog, getEventCalls>>

\* After the burst: `self.get_read_wait_event()?`, then the wait begins.
rb_get_event(t) ==
    /\ pc[t] = "poll"
    /\ polls[t] = PollBurst
    /\ GetReadWaitEventStep
    /\ pc' = [pc EXCEPT ![t] = "wait"]
    /\ polls' = [polls EXCEPT ![t] = 0]
    /\ UNCHANGED <<sessVars, readSignal, refs, pkts, txVars, rxVars,
                   releaseLog, last>>

\* `let handles = [read event, self.shutdown_event.0]`: the signaled state
\* of each handle, in the order of the array.
WaitHandles == <<readSignal, shutdown_event = "set">>

\* A receive_blocking whose shutdown arm loops like its data arm.
WaitMatchShutdownLoops(result) ==
    CASE result = "WAIT_FAILED" -> "WaitFailed"
      [] result = "WAIT_OBJECT_0" -> "continue"
      [] result = "WAIT_OBJECT_1" -> "continue"
      [] OTHER -> "panic"

\* A receive_blocking whose data arm returns like its shutdown arm.
WaitMatchDataIsShutdown(result) ==
    CASE result = "WAIT_FAILED" -> "WaitFailed"
      [] result = "WAIT_OBJECT_0" -> "ShuttingDown"
      [] result = "WAIT_OBJECT_1" -> "ShuttingDown"
      [] OTHER -> "panic"

\* A receive_blocking whose data arm returns to the caller.
WaitMatchDataReturns(result) ==
    CASE result = "WAIT_FAILED" -> "WaitFailed"
      [] result = "WAIT_OBJECT_0" -> "Packet"
      [] result = "WAIT_OBJECT_1" -> "ShuttingDown"
      [] OTHER -> "panic"

\* `match result`: where each result of the wait leads.
WaitMatch(result) ==
    CASE result = "WAIT_FAILED" -> "WaitFailed"
      [] result = "WAIT_OBJECT_0" -> "continue"
      [] result = "WAIT_OBJECT_1" -> "ShuttingDown"
      [] OTHER -> "panic"

\* The event objects after a wait they satisfied.  The driver's read
\* event is an auto-reset event: the wait resets it.
ReadSignalAfterWait(result) ==
    IF result = "WAIT_OBJECT_0" THEN FALSE ELSE readSignal

\* The shutdown event is a manual-reset event: it stays signaled, for
\* every waiter and every later wait.
ShutdownEventAfterWait(result) == shutdown_event

\* What thread t does with the result of its wait.
WaitReturn(t, result) ==
    IF WaitMatch(result) = "continue"
    THEN /\ pc' = [pc EXCEPT ![t] = "poll"]
         /\ UNCHANGED last
    ELSE /\ pc' = [pc EXCEPT ![t] = "idle"]
         /\ last' = [NoCall EXCEPT !.op = "receive_blocking", !.t = t,
                                   !.res = WaitMatch(result), !.drv = result]

\* Thread t calls WaitForMultipleObjects: a handle that is signaled ends the
\* wait at once; with none signaled the thread parks.
rb_wait(t) ==
    /\ pc[t] = "wait"
    /\ LET result == WaitForMultipleObjects(WaitHandles) IN
         IF result = "blocked"
         THEN /\ pc' = [pc EXCEPT ![t] = "parked"]
              /\ UNCHANGED <<readSignal, shutdown_event, last>>
         ELSE /\ readSignal' = ReadSignalAfterWait(result)
              /\ shutdown_event' = ShutdownEventAfterWait(result)
              /\ WaitReturn(t, result)
    /\ UNCHANGED <<session, drvSession, dropLog, read_event, refs, polls,
                   pkts, txVars, rxVars, releaseLog, getEventCalls, staleCalls>>

\* The call of WaitForMultipleObjects by thread t fails at the OS level.
rb_wait_failed(t) ==
    /\ pc[t] = "wait"
    /\ WaitReturn(t, "WAIT_FAILED")
    /\ UNCHANGED <<sessVars, read_event, readSignal, refs, polls, pkts,
                   txVars, rxVars, releaseLog, getEventCalls, staleCalls>>

\* The parked threads a signal of the read event can release: those the
\* shutdown event has not released already.
Waiting == IF shutdown_event = "set" THEN {} ELSE {t \in Threads : pc[t] = "parked"}

\* A parked thread that the shutdown event released runs again: its wait
\* returns the index of the shutdown handle.
rb_wake(t) ==
    /\ pc[t] = "parked"
    /\ shutdown_event = "set"
    /\ shutdown_event' = ShutdownEventAfterWait("WAIT_OBJECT_1")
    /\ WaitReturn(t, "WAIT_OBJECT_1")
    /\ UNCHANGED <<session, drvSession, dropLog, read_event, readSignal, refs,
                   polls, pkts, txVars, rxVars, releaseLog, getEventCalls,
                   staleCalls>>

\* --------------------------------------------------------- shutdown
\* An event object whose state flips with every SetEvent.
SetEventToggles(ev) ==
    IF ev = "closed" THEN ev ELSE IF ev = "set" THEN "unset" ELSE "set"

\* SetEvent on an event object: it becomes signaled.
SetEvent(ev) == IF ev = "closed" THEN ev ELSE "set"

\* A shutdown that also ends the driver's session.
ShutdownEndsSession(d) == [d EXCEPT !.ev = SetEvent(d.ev), !.drv = "ended"]

\* What a successful shutdown does to the Session.
ShutdownEffect(d) == [d EXCEPT !.ev = SetEvent(d.ev)]

\* `if FALSE == SetEvent(..) { Err(..) } else { Ok(()) }`
ShutdownResult(setEventFails) == IF setEventFails THEN "Err" ELSE "Ok"

shutdown ==
    /\ CanCallAny
    /\ \E fails \in FailChoices :
         /\ IF fails
            THEN UNCHANGED sessVars
            ELSE SetSession(ShutdownEffect(SessionNow))
         /\ last' = [NoCall EXCEPT !.op = "shutdown",
                                   !.res = ShutdownResult(fails),
                                   !.pre = shutdown_event,
                                   !.drv = IF fails THEN "FALSE" ELSE "TRUE"]
    /\ UNCHANGED <<read_event, readSignal, refs, thrVars, pkts, txVars,
                   rxVars, releaseLog, getEventCalls, staleCalls>>

\* ------------------------------------------------------- the driver
\* A driver that transmits in send order: any slot that has been sent goes.
DriverTransmitSendOrder ==
    /\ drvSession = "running"
    /\ \E i \in DOMAIN txRing :
         /\ txRing[i].sent
         /\ delivered' = Append(delivered, txRing[i].buf)
         /\ txRing' = [j \in 1..(Len(txRing) - 1) |->
                          IF j < i THEN txRing[j] ELSE txRing[j + 1]]
    /\ UNCHANGED <<sessVars, read_event, readSignal, refs, thrVars, pkts,
                   allocated, sendLog, rxVars, releaseLog, getEventCalls,
                   staleCalls, last>>

\* The driver moves the head of the send ring to the remote end once
\* WintunSendPacket has been called for it.
DriverTransmit ==
    /\ drvSession = "running"
    /\ txRing # <<>>
    /\ Head(txRing).sent
    /\ delivered' = Append(delivered, Head(txRing).buf)
    /\ txRing' = Tail(txRing)
    /\ UNCHANGED <<sessVars, read_event, readSignal, refs, thrVars, pkts,
                   allocated, sendLog, rxVars, releaseLog, getEventCalls,
                   staleCalls, last>>

\* The driver queues a packet for reception and signals the read event:
\* the signal releases one of the threads parked on it, whose wait returns
\* the index of the read handle, and stays set when no thread is parked.
DriverInject ==
    /\ drvSession = "running"
    /\ injected < MaxInject
    /\ \E size \in RxSizes :
         rxQueue' = Append(rxQueue, <<RxBuf(injected + 1), size>>)
    /\ injected' = injected + 1
    /\ IF Waiting = {}
       THEN /\ readSignal' = TRUE
            /\ UNCHANGED <<pc, last>>
       ELSE /\ readSignal' = ReadSignalAfterWait("WAIT_OBJECT_0")
            /\ \E t \in Waiting : WaitReturn(t, "WAIT_OBJECT_0")
    /\ UNCHANGED <<sessVars, read_event, refs, polls, pkts, txVars,
                   rxLog, releaseLog, getEventCalls, staleCalls>>

\* ------------------------------------------------- specifications
\* The calls and driver steps of the send path.
NextSend ==
    \/ \E size \in SizeChoices : allocate_send_packet(size)
    \/ \E b \in Live : send_packet(b)
    \/ \E b \in Live : drop_packet(b)
    \/ drop_session_ref
    \/ DriverTransmit

\* Every call that does not block, with the driver's steps.
NextCalls ==
    \/ \E size \in FullSize : allocate_send_packet(size)
    \/ \E b \in Live : send_packet(b)
    \/ \E b \in Live : drop_packet(b)
    \/ drop_session_ref
    \/ try_receive
    \/ get_read_wait_event
    \/ shutdown
    \/ DriverTransmit
    \/ DriverInject

\* The receive path: the blocking receive, its cancellation, and the calls
\* and driver steps that act on the receive queue and the two events.
NextBlocking ==
    \/ \E b \in Live : drop_packet(b)
    \/ drop_session_ref
    \/ try_receive
    \/ get_read_wait_event
    \/ \E t \in Threads : receive_blocking(t)
    \/ \E t \in Threads : rb_poll(t)
    \/ \E t \in Threads : rb_get_event(t)
    \/ \E t \in Threads : rb_wait(t)
    \/ \E t \in Threads : rb_wait_failed(t)
    \/ \E t \in Threads : rb_wake(t)
    \/ shutdown
    \/ DriverInject

\* The blocking receive and its cancellation alone: the threads inside
\* receive_blocking, shutdown, and the driver's arrivals.
NextWaiters ==
    \/ \E t \in Threads : receive_blocking(t)
    \/ \E t \in Threads : rb_poll(t)
    \/ \E t \in Threads : rb_get_event(t)
    \/ \E t \in Threads : rb_wait(t)
    \/ \E t \in Threads : rb_wait_failed(t)
    \/ \E t \in Threads : rb_wake(t)
    \/ shutdown
    \/ DriverInject

Next == NextSend \/ NextCalls \/ NextBlocking

Spec == Init /\ [][Next]_vars

SpecSend == Init /\ [][NextSend]_vars

SpecCalls == Init /\ [][NextCalls]_vars

SpecBlocking == Init /\ [][NextBlocking]_vars

SpecWaiters == Init /\ [][NextWaiters]_vars

\* The OS runs every thread that can run: a thread inside receive_blocking
\* makes its next poll, fetches the event, calls the wait, and runs again
\* once the shutdown event has released it.
SpecBlockingFair ==
    /\ SpecBlocking
    /\ \A t \in Threads :
         /\ WF_vars(rb_poll(t))
         /\ WF_vars(rb_get_event(t))
         /\ WF_vars(rb_wait(t))
         /\ WF_vars(rb_wake(t))

SpecWaitersFair ==
    /\ SpecWaiters
    /\ \A t \in Threads :
         /\ WF_vars(rb_poll(t))
         /\ WF_vars(rb_get_event(t))
         /\ WF_vars(rb_wait(t))
         /\ WF_vars(rb_wake(t))

\* -------------------------------------------------------- properties
Range(f) == {f[i] : i \in DOMAIN f}

\* Thread t has returned from receive_blocking with the result res.
ReturnedWith(t, res) ==
    /\ pc[t] = "idle"
    /\ last.op = "receive_blocking"
    /\ last.t = t
    /\ last.res = res

\* C1: every thread that is parked in the wait of receive_blocking once
\* shutdown() has succeeded leaves the wait, and leaves it by returning
\* ShuttingDown; none stays parked, however many are parked on the Session.
C1_ShutdownReleasesEveryWaiter ==
    /\ []<>(\A t \in Threads : ~(pc[t] = "parked" /\ shutdown_event = "set"))
    /\ [][\A t \in Threads :
            (pc[t] = "parked" /\ shutdown_event = "set" /\ pc'[t] # "parked")
                => (pc'[t] = "idle" /\ last'.op = "receive_blocking"
                    /\ last'.t = t /\ last'.res = "ShuttingDown")]_vars

\* C1, witness: with the shutdown signal set, one thread has returned
\* ShuttingDown from receive_blocking and another is still parked in the wait.
C1_Witness ==
    /\ shutdown_event = "set"
    /\ \E t \in Threads, u \in Threads :
         /\ t # u
         /\ ReturnedWith(t, "ShuttingDown")
         /\ pc[u] = "parked"

\* C2: a receive_blocking call made after shutdown() has succeeded never
\* returns a packet (it returns ShuttingDown), whatever the receive queue
\* holds.
C2_NoPacketAfterShutdown ==
    [][\A t \in Threads :
          (shutdown_event = "set" /\ receive_blocking(t))
              => ~(last'.op = "receive_blocking" /\ last'.t = t
                   /\ last'.res = "Packet")]_vars

\* C3: a wait that is evaluated with the read-ready signal and the shutdown
\* signal both signaled ends the call with ShuttingDown.
C3_ShutdownWinsTheWait ==
    [][\A t \in Threads :
          (pc[t] = "wait" /\ readSignal /\ shutdown_event = "set" /\ rb_wait(t))
              => (pc'[t] = "idle" /\ last'.op = "receive_blocking"
                  /\ last'.t = t /\ last'.res = "ShuttingDown")]_vars

\* C4: the Session is not destroyed while a Packet created on it is alive,
\* and no driver call is made on an ended or null session handle.
C4_PacketsKeepSessionAlive ==
    /\ staleCalls = 0
    /\ Live # {} =>
         /\ dropLog = <<>>
         /\ session = "valid"
         /\ drvSession = "running"
         /\ shutdown_event # "closed"

\* C4, witness: every thread has given up its reference, a Packet is still
\* alive, and the session handle is still open.
C4_Witness ==
    /\ refs = 0
    /\ Live # {}
    /\ session = "valid"
    /\ drvSession = "running"

\* Every variable but the record of the last call.
allButLast ==
    <<session, read_event, shutdown_event, readSignal, drvSession, refs, pc,
      polls, pkts, allocated, txRing, sendLog, delivered, injected, rxQueue,
      rxLog, releaseLog, getEventCalls, dropLog, staleCalls>>

\* C5: send_packet on a packet that is not SendPacketPending aborts before
\* any driver call; the driver is sent only pending buffers, and none twice.
C5_OnlyPendingIsSent ==
    /\ [](\A i \in DOMAIN sendLog : \A j \in DOMAIN sendLog :
             sendLog[i] = sendLog[j] => i = j)
    /\ [][\A b \in Live : send_packet(b) =>
            IF pkts[b].kind = "SendPacketPending"
            THEN sendLog' = Append(sendLog, b)
            ELSE /\ last'.res = "abort"
                 /\ UNCHANGED <<sendLog, txRing>>]_vars

\* C5, witness: send_packet was called with a received packet and aborted.
C5_Witness ==
    /\ last.op = "send_packet"
    /\ last.res = "abort"
    /\ last.pre = "ReceivePacket"
    /\ last.buf \notin Range(sendLog)

HasSpace(size) == PacketSpace(size) < RingCapacity - RingUsed(txRing)

\* C7: when the driver has space, allocate_send_packet(s) returns a
\* SendPacketPending Packet of exactly s bytes, and a send_packet that
\* follows at once returns without abort and leaves it SendPacketSent.
C7_AllocateThenSend ==
    [][/\ \A s \in SizeChoices :
            (allocate_send_packet(s) /\ HasSpace(s)
             /\ last'.drv # "ERROR_HANDLE_EOF") =>
                /\ last'.res = "Ok"
                /\ last'.kind = "SendPacketPending"
                /\ last'.len = s
                /\ last'.buf \in DOMAIN pkts'
                /\ pkts'[last'.buf].kind = "SendPacketPending"
                /\ pkts'[last'.buf].len = s
       /\ \A b \in Live :
            (send_packet(b) /\ last.op = "allocate_send_packet"
             /\ last.res = "Ok" /\ last.buf = b) =>
                /\ last'.res = "Ok"
                /\ last'.kind = "SendPacketSent"
                /\ last'.len = last.size
                /\ sendLog' = Append(sendLog, b)]_vars

\* C7, witness: a packet of the largest size was allocated and then sent.
C7_Witness ==
    /\ last.op = "send_packet"
    /\ last.res = "Ok"
    /\ last.kind = "SendPacketSent"
    /\ last.len = MaxU16
    /\ last.buf \in Range(sendLog)

\* C8: try_receive can return in every state where it can be called and
\* touches neither signal; on the driver's "no more items" it returns
\* Ok(None); it returns a ReceivePacket Packet exactly when the driver hands
\* out a buffer.
C8_TryReceiveNeverBlocks ==
    /\ [](CanCallAny => ENABLED try_receive)
    /\ [][try_receive =>
            /\ UNCHANGED <<readSignal, shutdown_event, read_event, pc>>
            /\ last'.drv = "ERROR_NO_MORE_ITEMS" => last'.res = "None"
            /\ rxQueue = <<>> => last'.res # "Some"
            /\ last'.res = "Some" <=> rxQueue' # rxQueue
            /\ last'.res = "Some" =>
                 /\ last'.buf = Head(rxQueue)[1]
                 /\ pkts'[last'.buf].kind = "ReceivePacket"]_vars

\* C8, witness: try_receive found the queue empty and returned Ok(None)
\* while the shutdown signal and the read-ready signal were both set.
C8_Witness ==
    /\ last.op = "try_receive"
    /\ last.res = "None"
    /\ last.drv = "ERROR_NO_MORE_ITEMS"
    /\ rxQueue = <<>>
    /\ shutdown_event = "set"
    /\ readSignal

\* C9: a shutdown whose SetEvent succeeds returns Ok and leaves the signal
\* set; on a Session whose signal is set already it can succeed again and
\* changes nothing.
C9_ShutdownIdempotent ==
    /\ []((CanCallAny /\ shutdown_event = "set") =>
             ENABLED (shutdown /\ last'.res = "Ok"))
    /\ [][shutdown =>
            /\ last'.drv = "TRUE" =>
                 (last'.res = "Ok" /\ shutdown_event' = "set")
            /\ shutdown_event = "set" => UNCHANGED allButLast]_vars

\* C9, witness: a second shutdown on the Session has returned Ok.
C9_Witness ==
    /\ last.op = "shutdown"
    /\ last.res = "Ok"
    /\ last.pre = "set"
    /\ shutdown_event = "set"

\* C10: shutdown changes the shutdown signal only, and allocate_send_packet,
\* send_packet and try_receive answer after it as they do before it.
C10_ShutdownFrame ==
    [][/\ shutdown =>
            UNCHANGED <<session, read_event, readSignal, drvSession, refs, pc,
                        polls, pkts, allocated, txRing, sendLog, delivered,
                        injected, rxQueue, rxLog, releaseLog, getEventCalls,
                        dropLog, staleCalls>>
       /\ shutdown_event = "set" =>
            /\ \A s \in SizeChoices : allocate_send_packet(s) =>
                 /\ shutdown_event' = "set"
                 /\ last'.res = "Ok" <=>
                      (HasSpace(s) /\ last'.drv # "ERROR_HANDLE_EOF")
            /\ \A b \in Live : send_packet(b) =>
                 /\ shutdown_event' = "set"
                 /\ last'.res = "Ok" <=> pkts[b].kind = "SendPacketPending"
            /\ try_receive =>
                 /\ shutdown_event' = "set"
                 /\ last'.res = "Some" <=> rxQueue # <<>> /\ last'.drv = "none"
                 /\ last'.res = "None" <=> last'.drv = "ERROR_NO_MORE_ITEMS"]_vars

\* C10, witness: a packet was allocated after a successful shutdown, on a
\* Session that has sent and received packets.
C10_Witness ==
    /\ shutdown_event = "set"
    /\ session = "valid"
    /\ sendLog # <<>>
    /\ rxLog # <<>>
    /\ last.op = "allocate_send_packet"
    /\ last.res = "Ok"

\* C11: the shutdown signal changes only by a successful shutdown(), from
\* unset to set, or by the destruction of the Session, which closes it; no
\* other step sets it and none clears it; and receive_blocking returns
\* ShuttingDown only with the signal set.
C11_ShutdownOneWay ==
    /\ [](dropLog = <<>> => shutdown_event \in {"unset", "set"})
    /\ [][/\ shutdown_event' # shutdown_event =>
               \/ /\ shutdown
                  /\ last'.res = "Ok"
                  /\ shutdown_event = "unset"
                  /\ shutdown_event' = "set"
               \/ /\ dropLog = <<>>
                  /\ dropLog' # <<>>
                  /\ shutdown_event' = "closed"
          /\ \A t \in Threads :
               (last' # last /\ last'.op = "receive_blocking"
                /\ last'.t = t /\ last'.res = "ShuttingDown")
                   => (shutdown_event = "set" /\ shutdown_event' = "set")]_vars

\* C11, witness: shutdown() was called once and the signal is still set
\* after a thread woke on it and returned ShuttingDown and another thread
\* released a received packet.
C11_Witness ==
    /\ shutdown_event = "set"
    /\ releaseLog # <<>>
    /\ \E t \in Threads : ReturnedWith(t, "ShuttingDown") /\ last.drv = "WAIT_OBJECT_1"

\* C12: when the driver hands out no buffer (the ring is full or the driver
\* fails), allocate_send_packet returns AllocationFailed with the driver's
\* error, creates no Packet, and leaves the reference count and the send
\* ring as they were.
C12_AllocationFailure ==
    [][\A s \in SizeChoices :
          (allocate_send_packet(s)
           /\ (~HasSpace(s) \/ last'.drv = "ERROR_HANDLE_EOF")) =>
              /\ last'.res = "AllocationFailed"
              /\ last'.drv \in {"ERROR_BUFFER_OVERFLOW", "ERROR_HANDLE_EOF"}
              /\ last'.buf = NoBuf
              /\ pkts' = pkts
              /\ StrongCount(refs', pkts') = StrongCount(refs, pkts)
              /\ UNCHANGED <<refs, allocated, txRing, sendLog, delivered,
                             session, drvSession, dropLog>>]_vars

\* C12, witness: an allocation failed on a full ring while the packet that
\* fills the ring is still alive.
C12_Witness ==
    /\ last.op = "allocate_send_packet"
    /\ last.res = "AllocationFailed"
    /\ last.drv = "ERROR_BUFFER_OVERFLOW"
    /\ Live # {}
    /\ txRing # <<>>

\* C13: as long as no driver or OS call fails, no thread stays parked in the
\* wait of receive_blocking for ever while the receive queue holds a packet
\* and the shutdown signal is unset.
C13_NoLostWakeup ==
    [](last.res \notin {"ReceiveFailed", "WaitFailed", "Err"}) =>
        \A t \in Threads :
            []<>~(pc[t] = "parked" /\ rxQueue # <<>>
                  /\ shutdown_event = "unset")

\* Thread t is in the wait of receive_blocking, about to call it or parked.
InWait(t) == pc[t] \in {"wait", "parked"}

\* C14: receive_blocking enters the wait only after 5 polls in a row found
\* no packet; a wake by the read-ready signal returns nothing and restarts
\* the burst from zero; a packet is returned only by a poll that took it
\* from the head of the driver's queue.
C14_BurstThenWait ==
    [][\A t \in Threads :
          /\ (~InWait(t) /\ InWait(t)') =>
                (pc[t] = "poll" /\ polls[t] = 5 /\ rxQueue' = rxQueue)
          /\ polls'[t] # polls[t] =>
                \/ polls'[t] = 0
                \/ /\ polls'[t] = polls[t] + 1
                   /\ polls[t] < 5
                   /\ pc[t] \in {"idle", "poll"}
                   /\ UNCHANGED <<rxQueue, pkts, last>>
          /\ (InWait(t) /\ ~InWait(t)' /\ readSignal' # readSignal) =>
                (pc'[t] = "poll" /\ polls'[t] = 0 /\ UNCHANGED <<last, pkts>>)
          /\ (InWait(t) /\ pc'[t] = "poll") =>
                (polls'[t] = 0 /\ UNCHANGED <<last, pkts, rxLog>>)
          /\ (last' # last /\ last'.op = "receive_blocking" /\ last'.t = t
              /\ last'.res = "Packet") =>
                /\ pc[t] \in {"idle", "poll"}
                /\ rxQueue # <<>>
                /\ last'.buf = Head(rxQueue)[1]
                /\ rxQueue' = Tail(rxQueue)]_vars

\* C14, witness: a thread was woken by the read-ready signal, finds the
\* queue empty, and stands at the start of a new burst.
C14_Witness ==
    \E t \in Threads :
        /\ pc[t] = "poll"
        /\ polls[t] = 0
        /\ rxQueue = <<>>
        /\ injected > 0
        /\ shutdown_event = "unset"

\* C15: a driver failure of any poll, first or later, ends receive_blocking
\* with that error at once, and a failure of the wait ends it with the OS
\* failure; the thread is then out of the call, and the failing step has
\* taken no packet and touched no signal.
C15_ErrorsReturnAtOnce ==
    /\ [](\A t \in Threads :
            /\ CanCall(t) =>
                 ENABLED (receive_blocking(t) /\ last'.res = "ReceiveFailed"
                          /\ last'.t = t /\ pc'[t] = "idle")
            /\ (pc[t] = "poll" /\ polls[t] < 5) =>
                 ENABLED (rb_poll(t) /\ last'.res = "ReceiveFailed"
                          /\ last'.t = t /\ pc'[t] = "idle")
            /\ pc[t] = "wait" =>
                 ENABLED (rb_wait_failed(t) /\ last'.res = "WaitFailed"
                          /\ last'.t = t /\ pc'[t] = "idle"))
    /\ [][\A t \in Threads :
            (last' # last /\ last'.op = "receive_blocking" /\ last'.t = t
             /\ last'.res \in {"ReceiveFailed", "WaitFailed"}) =>
                /\ pc'[t] = "idle"
                /\ polls'[t] = 0
                /\ last'.res = "ReceiveFailed" =>
                     (pc[t] \in {"idle", "poll"}
                      /\ last'.drv = "ERROR_HANDLE_EOF")
                /\ last'.res = "WaitFailed" =>
                     (pc[t] = "wait" /\ last'.drv = "WAIT_FAILED")
                /\ UNCHANGED <<rxQueue, rxLog, pkts, readSignal,
                               shutdown_event>>]_vars

\* C15, witness: a thread left receive_blocking with the wait's failure and
\* nobody has taken the packet that is queued.
C15_Witness ==
    /\ rxQueue # <<>>
    /\ \E t \in Threads : ReturnedWith(t, "WaitFailed")
    /\ \A t \in Threads : pc[t] = "idle"
    /\ rxLog = <<>>
    /\ getEventCalls = 1

\* C16: the driver is asked for the read event at most once, however many
\* threads fetch it, directly or before their wait; the cache is empty
\* exactly as long as the driver was not asked, so no call that does not
\* ask the driver fills it and no call changes or empties it afterwards;
\* and every thread in the wait has the cached handle.
C16_ReadEventInitOnce ==
    /\ getEventCalls \in {0, 1}
    /\ read_event \in {"uninit", "handle"}
    /\ read_event = "uninit" <=> getEventCalls = 0
    /\ \A t \in Threads : InWait(t) => read_event = "handle"

\* C16, witness: every thread is in the wait of receive_blocking, each
\* having fetched the read event, and the driver was asked once.
C16_Witness ==
    /\ \A t \in Threads : InWait(t)
    /\ getEventCalls = 1
    /\ read_event = "handle"

\* C17: the Session is destroyed exactly when its last reference goes, once,
\* in the order CloseHandle, WintunEndSession on the still valid handle,
\* null handle; a CloseHandle that fails is logged and the other two steps
\* follow; nothing closes the driver's read event.
C17_DropOrder ==
    /\ dropLog # <<>> <=> StrongCount(refs, pkts) = 0
    /\ dropLog \in
         {<<>>,
          <<"CloseHandle", "WintunEndSession(valid)", "session = null">>,
          <<"CloseHandle failed, logged", "WintunEndSession(valid)",
            "session = null">>}
    /\ dropLog = <<>> =>
         (session = "valid" /\ drvSession = "running"
          /\ shutdown_event # "closed")
    /\ dropLog # <<>> =>
         /\ session = "null"
         /\ drvSession = "ended"
         /\ shutdown_event = "closed" <=> dropLog[1] = "CloseHandle"
    /\ read_event \in {"uninit", "handle"}

\* C17, witness: the Session was destroyed with a CloseHandle that failed;
\* the session was ended and the handle nulled all the same, and the cached
\* read event is as it was.
C17_Witness ==
    /\ dropLog = <<"CloseHandle failed, logged", "WintunEndSession(valid)",
                   "session = null">>
    /\ session = "null"
    /\ drvSession = "ended"
    /\ shutdown_event = "set"
    /\ read_event = "handle"

\* C18: a live Packet made by allocate_send_packet is SendPacketPending and
\* one made by try_receive is ReceivePacket, and stays so; send_packet
\* leaves its packet SendPacketSent after the driver call; each received
\* packet that was destroyed went back to the driver exactly once, and no
\* send packet, sent or not, ever did.
C18_PacketLifecycle ==
    /\ \A b \in Live :
         /\ pkts[b].kind \in {"SendPacketPending", "ReceivePacket"}
         /\ pkts[b].kind = "SendPacketPending" <=>
              \E i \in 1..allocated : b = TxBuf(i)
         /\ pkts[b].kind = "ReceivePacket" <=> b \in Range(rxLog)
    /\ (last.op = "send_packet" /\ last.res = "Ok") =>
         /\ last.pre = "SendPacketPending"
         /\ last.kind = "SendPacketSent"
         /\ last.buf \in Range(sendLog)
         /\ last.buf \notin Live
    /\ \A i \in DOMAIN releaseLog : \A j \in DOMAIN releaseLog :
         releaseLog[i] = releaseLog[j] => i = j
    /\ Range(releaseLog) = Range(rxLog) \ Live

\* C18, witness: a received packet was destroyed and went back to the
\* driver, another is still alive, and a send packet was sent and destroyed
\* without a release.
C18_Witness ==
    /\ releaseLog = <<RxBuf(1)>>
    /\ sendLog # <<>>
    /\ RxBuf(2) \in Live
    /\ pkts[RxBuf(2)].kind = "ReceivePacket"
    /\ last.op = "send_packet"
    /\ last.res = "Ok"

\* C19: the packets handed to callers of try_receive and receive_blocking
\* are, in the order of the calls, the packets the driver queued, each once;
\* a queued packet is in the queue or was handed out; the caller gets the
\* buffer the driver handed out; and a received Packet is alive only for a
\* buffer that was handed out.
C19_ReceiveFifo ==
    /\ Len(rxLog) + Len(rxQueue) = injected
    /\ \A k \in DOMAIN rxLog : rxLog[k] = RxBuf(k)
    /\ \A k \in DOMAIN rxQueue : rxQueue[k][1] = RxBuf(Len(rxLog) + k)
    /\ last.res \in {"Some", "Packet"} =>
         /\ rxLog # <<>>
         /\ last.buf = rxLog[Len(rxLog)]
         /\ last.kind = "ReceivePacket"
    /\ \A b \in Live : pkts[b].kind = "ReceivePacket" => b \in Range(rxLog)
    /\ Range(releaseLog) \subseteq Range(rxLog)

\* C19, witness: while another thread is inside receive_blocking, a thread
\* got the second queued packet from receive_blocking; the first was handed
\* out before it and is still alive.
C19_Witness ==
    /\ rxLog = <<RxBuf(1), RxBuf(2)>>
    /\ \E t \in Threads, u \in Threads :
         /\ t # u
         /\ ReturnedWith(t, "Packet")
         /\ last.buf = RxBuf(2)
         /\ pc[u] # "idle"
    /\ RxBuf(1) \in Live

\* C20: while a thread is inside receive_blocking, polling or in the wait,
\* the references cover every such thread and the Session is not destroyed:
\* the shutdown handle is open, the driver's session runs and the handle is
\* valid.
C20_NoDropUnderReceiver ==
    Active # {} =>
        /\ refs >= Cardinality(Active)
        /\ StrongCount(refs, pkts) > 0
        /\ dropLog = <<>>
        /\ session = "valid"
        /\ drvSession = "running"
        /\ shutdown_event \in {"unset", "set"}

\* C20, witness: after shutdown() every reference but the receiver's own
\* was given up, and the receiver is still parked on a live Session.
C20_Witness ==
    /\ shutdown_event = "set"
    /\ refs = 1
    /\ Live = {}
    /\ \E t \in Threads : pc[t] = "parked"
    /\ session = "valid"
    /\ drvSession = "running"

====
